---------------------------- MODULE Spec2Model ----------------------------
(***************************************************************************)
(* A model of GstCamera (packages/camera/elinux/gst_camera.cc): the        *)
(* adapter between a GStreamer v4l2src pipeline and the camera plugin.     *)
(*                                                                         *)
(* Three threads touch one GstCamera object:                               *)
(*   - the host thread, which constructs it, calls Play/Pause/Stop,        *)
(*     SetZoomLevel and TakePicture, and finally destroys it;              *)
(*   - the library's streaming thread, which calls HandoffHandler for      *)
(*     every decoded frame and HandleGstMessage for bus messages;          *)
(*   - a consumer thread, which calls GetPreviewFrameBuffer.               *)
(* Every statement that reads or writes a member shared between threads    *)
(* is a step of its own.  The library (GStreamer, GLib) is modelled by     *)
(* what its documented contract lets it answer.                            *)
(***************************************************************************)
EXTENDS Integers, Sequences, FiniteSets

VARIABLES
    m_pc,            \* host thread: "new", "idle", the DestroyPipeline steps, "gone";
                     \* every thread is at "aborted" once the process was ended
    dtor,            \* TRUE once ~GstCamera() has been entered
    created,         \* what CreatePipeline returned to the constructor
    gst,             \* gst_: the handles (TRUE = non-null) and gst_.buffer
    ref_pipeline,    \* references the adapter holds on the pipeline
    ref_bus,         \* references the adapter holds on the bus
    buf_held,        \* ids of the frame buffers the adapter holds a reference on
    bad_unref,       \* TRUE once a reference was released that was not held
    pstate,          \* the pipeline's state inside the library
    handoffs_on,     \* fakesink emits "handoff" to HandoffHandler
    width_, height_, \* the members width_ and height_
    pixels_,         \* the allocation pixels_ owns: [id, cap], id 0 = none
    allocs,          \* number of pixel allocations made so far
    writer,          \* mutex_buffer_ is held exclusively (by the streaming thread)
    readers,         \* threads holding mutex_buffer_ shared
    h_pc,            \* streaming thread: position inside HandoffHandler
    h_buf,           \* HandoffHandler's argument buf (with the caps of new_pad)
    nhandoff,        \* frames the library has handed off so far
    notified,        \* OnNotifyFrameDecoded notifications issued so far
    c_pc,            \* consumer thread: position inside GetPreviewFrameBuffer
    c_buf,           \* the buffer handle the consumer passes to gst_buffer_extract
    c_bytes,         \* the consumer's local pixel_bytes
    c_dst,           \* the allocation id the consumer extracts into
    c_ret,           \* what the consumer's last call returned
    c_start,         \* notifications issued when the consumer's call started
    ret,             \* the host thread's last call and what it returned
    max_zoom_level_, \* the member max_zoom_level_, in units of 1/ZoomScale
    min_zoom_level_, \* the member min_zoom_level_, in units of 1/ZoomScale
    extra_controls,  \* v4l2src's "extra-controls": <<>> or <<zoom-absolute>>
    on_notify_captured_, \* the member on_notify_captured_
    last_taken,      \* the callback passed to the most recent TakePicture
    takes,           \* TakePicture calls so far
    bus_log,         \* bus messages delivered so far, with the callback expected
    captured         \* invocations of the capture callback: <<callback, filename>>

vars == << m_pc, dtor, created, gst, ref_pipeline, ref_bus, buf_held, bad_unref, pstate,
           handoffs_on, width_, height_, pixels_, allocs, writer, readers,
           h_pc, h_buf, nhandoff, notified, c_pc, c_buf, c_bytes, c_dst, c_ret,
           c_start, ret, max_zoom_level_, min_zoom_level_, extra_controls, on_notify_captured_,
           last_taken, takes, bus_log, captured >>

frame_vars == << width_, height_, pixels_, allocs, writer, readers, h_pc, h_buf,
                 nhandoff, notified >>
consumer_vars == << c_pc, c_buf, c_bytes, c_dst, c_ret, c_start >>
capture_vars == << on_notify_captured_, last_taken, takes, bus_log, captured >>
ref_vars == << ref_pipeline, ref_bus, buf_held, bad_unref >>

(***************************************************************************)
(* Bounds of the model.                                                    *)
(***************************************************************************)
MaxFrames == 2       \* frames the library hands off in one run
MaxMessages == 2     \* bus messages delivered in one run
MaxTakes == 2        \* TakePicture calls in one run
ZoomScale == 2       \* zoom arguments are multiples of 1/ZoomScale

(***************************************************************************)
(* Values.                                                                 *)
(***************************************************************************)
NullBuf == [id |-> 0, w |-> 0, h |-> 0]
NoPixels == [id |-> 0, cap |-> 0]
\* Negotiated caps a frame can arrive with: <<width, height>>.
Resolutions == { <<1, 1>>, <<2, 1>>, <<2, 2>> }
BytesPerPixel == 4
\* The zoom range the constructor sets, and the one GetZoomMaxMinSize reports.
MaxZoomLevel == 3
MinZoomLevel == 0
GetZoomMax == 3
GetZoomMin == 0
\* The host's last call: which, its zoom argument, what it returned, and
\* what was true when it returned: a library call of it had reported
\* FAILURE, the pipeline's state.
NoRet == [op |-> "none", arg |-> 0, nan |-> FALSE, val |-> FALSE,
          failed |-> FALSE, state |-> "NULL"]

\* What GetPreviewFrameBuffer returned: nothing yet, nullptr, the pixels of
\* frame id, or memory whose contents are not one frame's pixels.
NoResult == [kind |-> "none", id |-> 0]
NullResult == [kind |-> "null", id |-> 0]
Garbage == [kind |-> "garbage", id |-> 0]
FramePixels(id) == [kind |-> "frame", id |-> id]

NullHandles == [pipeline |-> FALSE, source |-> FALSE, jpegdec |-> FALSE,
                video_convert |-> FALSE, video_sink |-> FALSE, output |-> FALSE,
                bus |-> FALSE, buffer |-> NullBuf]

Init ==
    /\ m_pc = "new"
    /\ dtor = FALSE
    /\ created = FALSE
    /\ gst = NullHandles
    /\ ref_pipeline = 0
    /\ ref_bus = 0
    /\ buf_held = {}
    /\ bad_unref = FALSE
    /\ pstate = "NULL"
    /\ handoffs_on = FALSE
    /\ width_ = 0
    /\ height_ = 0
    /\ pixels_ = NoPixels
    /\ allocs = 0
    /\ writer = FALSE
    /\ readers = {}
    /\ h_pc = "idle"
    /\ h_buf = NullBuf
    /\ nhandoff = 0
    /\ notified = 0
    /\ c_pc = "idle"
    /\ c_buf = NullBuf
    /\ c_bytes = 0
    /\ c_dst = 0
    /\ c_ret = NoResult
    /\ c_start = 0
    /\ max_zoom_level_ = 0
    /\ min_zoom_level_ = 0
    /\ ret = NoRet
    /\ extra_controls = << >>
    /\ on_notify_captured_ = "empty"
    /\ last_taken = "empty"
    /\ takes = 0
    /\ bus_log = << >>
    /\ captured = << >>


(***************************************************************************)
(* The library.                                                            *)
(***************************************************************************)
\* gst_element_set_state: a null element is refused with FAILURE
\* (g_return_val_if_fail); otherwise the library answers `answer`.
gst_element_set_state(pipeline, answer) ==
    IF pipeline THEN answer ELSE "FAILURE"

\* What the library can answer to a request for each state.
SetStateAnswers(target) ==
    CASE target = "PLAYING" -> {"SUCCESS", "ASYNC", "FAILURE"}
      [] target = "PAUSED"  -> {"SUCCESS", "ASYNC", "NO_PREROLL", "FAILURE"}
      [] target = "READY"   -> {"SUCCESS", "FAILURE"}
      [] OTHER              -> {"SUCCESS"}

\* gst_element_get_state with GST_CLOCK_TIME_NONE: waits for the pending
\* change to end, one way or the other.
GetStateAnswers == {"SUCCESS", "FAILURE"}

\* Leaving PAUSED/PLAYING deactivates the pads, which waits for the
\* streaming thread to leave the handoff callback.
StreamingQuiet == h_pc = "idle"

\* gst_object_unref on an object the adapter holds `held` references of:
\* the references left.
Unref(held) == IF held > 0 THEN held - 1 ELSE 0

(***************************************************************************)
(* GstCamera::CreatePipeline.  fail = 0: every step succeeds; fail = i:    *)
(* step i is the first to fail.  Steps: 1 gst_pipeline_new, 2 v4l2src,     *)
(* 3 jpegdec, 4 videoconvert, 5 fakesink, 6 gst_pipeline_get_bus,          *)
(* 7 link source-jpegdec, 8 link jpegdec-videoconvert,                     *)
(* 9 link videoconvert-fakesink.                                           *)
(***************************************************************************)
CreateSteps == << "pipeline", "source", "jpegdec", "video_convert",
                  "video_sink", "bus", "link_source", "link_jpegdec",
                  "link_convert" >>

\* Step i ran and succeeded.
Passed(fail, i) == fail = 0 \/ i < fail

CreatePipelineHandles(fail) ==
    [pipeline      |-> Passed(fail, 1),
     source        |-> Passed(fail, 2),
     jpegdec       |-> Passed(fail, 3),
     video_convert |-> Passed(fail, 4),
     video_sink    |-> Passed(fail, 5),
     output        |-> FALSE,
     bus           |-> Passed(fail, 6),
     buffer        |-> NullBuf]

CreatePipelineResult(fail) == fail = 0

(***************************************************************************)
(* GstCamera::DestroyPipeline, lines 254-278: the handles it nulls.        *)
(***************************************************************************)
\* A DestroyPipeline that forgets gst_.source.
DestroyedHandles_KeepsSource(g) ==
    [g EXCEPT !.bus = FALSE, !.pipeline = FALSE, !.jpegdec = FALSE,
              !.video_sink = FALSE, !.video_convert = FALSE]

DestroyedHandles(g) ==
    [g EXCEPT !.bus = FALSE, !.pipeline = FALSE, !.source = FALSE,
              !.jpegdec = FALSE, !.video_sink = FALSE,
              !.video_convert = FALSE]

\* The constructor: CreatePipeline and, if it succeeded, Preroll (the
\* pipeline is PAUSED unless the library refuses) and the zoom range; if
\* it failed, DestroyPipeline follows (the next steps of the host thread).
Construct(fail, preroll) ==
    /\ m_pc = "new"
    /\ gst' = CreatePipelineHandles(fail)
    /\ ref_pipeline' = IF Passed(fail, 1) THEN 1 ELSE 0
    /\ ref_bus' = IF Passed(fail, 6) THEN 1 ELSE 0
    /\ handoffs_on' = Passed(fail, 6)
    /\ created' = CreatePipelineResult(fail)
    /\ IF CreatePipelineResult(fail)
         THEN /\ pstate' = IF gst_element_set_state(Passed(fail, 1), preroll)
                                  = "FAILURE"
                               THEN "NULL" ELSE "PAUSED"
              /\ max_zoom_level_' = MaxZoomLevel * ZoomScale
              /\ min_zoom_level_' = MinZoomLevel * ZoomScale
              /\ m_pc' = "idle"
         ELSE /\ m_pc' = "destroy_state"
              /\ UNCHANGED << pstate, max_zoom_level_, min_zoom_level_ >>
    /\ UNCHANGED << dtor, buf_held, bad_unref, ret, extra_controls >>
    /\ UNCHANGED << frame_vars, consumer_vars, capture_vars >>

\* DestroyPipeline, lines 241-247: handoffs off, pipeline to NULL.
DestroyState ==
    /\ m_pc = "destroy_state"
    /\ gst.pipeline => StreamingQuiet
    /\ handoffs_on' = IF gst.video_sink THEN FALSE ELSE handoffs_on
    /\ pstate' = IF gst.pipeline THEN "NULL" ELSE pstate
    /\ m_pc' = "destroy_buffer"
    /\ UNCHANGED << dtor, created, gst, ref_vars, ret, extra_controls,
                    max_zoom_level_, min_zoom_level_ >>
    /\ UNCHANGED << frame_vars, consumer_vars, capture_vars >>

\* DestroyPipeline, lines 249-252: the held frame buffer is released.
\* mutex_buffer_ is not taken.
DestroyBuffer ==
    /\ m_pc = "destroy_buffer"
    /\ IF gst.buffer # NullBuf
         THEN /\ buf_held' = buf_held \ {gst.buffer.id}
              /\ bad_unref' = (bad_unref \/ gst.buffer.id \notin buf_held)
              /\ gst' = [gst EXCEPT !.buffer = NullBuf]
         ELSE UNCHANGED << buf_held, bad_unref, gst >>
    /\ m_pc' = "destroy_rest"
    /\ UNCHANGED << dtor, created, ref_pipeline, ref_bus, pstate, handoffs_on, ret,
                    extra_controls, max_zoom_level_, min_zoom_level_ >>
    /\ UNCHANGED << frame_vars, consumer_vars, capture_vars >>

\* DestroyPipeline, lines 254-278: bus and pipeline are released, every
\* handle is nulled.  Returns into the constructor or ends the destructor.
DestroyRest ==
    /\ m_pc = "destroy_rest"
    /\ ref_bus' = IF gst.bus THEN Unref(ref_bus) ELSE ref_bus
    /\ ref_pipeline' = IF gst.pipeline THEN Unref(ref_pipeline) ELSE ref_pipeline
    /\ bad_unref' = (\/ bad_unref
                     \/ (gst.bus /\ ref_bus = 0)
                     \/ (gst.pipeline /\ ref_pipeline = 0))
    /\ gst' = DestroyedHandles(gst)
    /\ m_pc' = IF dtor THEN "gone" ELSE "idle"
    /\ UNCHANGED << dtor, created, buf_held, pstate, handoffs_on, ret, extra_controls,
                    max_zoom_level_, min_zoom_level_ >>
    /\ UNCHANGED << frame_vars, consumer_vars, capture_vars >>


(***************************************************************************)
(* GstCamera::Play, Pause, Stop.                                           *)
(***************************************************************************)
\* What Play returns, from set_state's result (lines 46-62).  The result
\* of the wait after ASYNC (lines 55-59) is logged and not returned.
PlayReturn(result, waited) == result # "FAILURE"

\* What Pause and Stop return (lines 66-71, 75-80).
StateReturn(result) == result # "FAILURE"

\* The pipeline's state after a request for PLAYING answered `result`,
\* the wait after ASYNC answered `waited`.
AfterPlay(result, waited) ==
    IF result = "SUCCESS" \/ (result = "ASYNC" /\ waited = "SUCCESS")
    THEN "PLAYING" ELSE pstate

Play(answer, waited) ==
    /\ m_pc = "idle"
    /\ LET result == gst_element_set_state(gst.pipeline, answer)
       IN /\ pstate' = AfterPlay(result, waited)
          /\ ret' = [NoRet EXCEPT !.op = "Play",
                         !.val = PlayReturn(result, waited),
                         !.failed = (result = "FAILURE"
                                     \/ (result = "ASYNC" /\ waited = "FAILURE")),
                         !.state = AfterPlay(result, waited)]
    /\ UNCHANGED << m_pc, dtor, created, gst, ref_vars, handoffs_on, extra_controls,
                    max_zoom_level_, min_zoom_level_ >>
    /\ UNCHANGED << frame_vars, consumer_vars, capture_vars >>

Pause(answer) ==
    /\ m_pc = "idle"
    /\ LET result == gst_element_set_state(gst.pipeline, answer)
           after == IF result = "FAILURE" THEN pstate ELSE "PAUSED"
       IN /\ pstate' = after
          /\ ret' = [NoRet EXCEPT !.op = "Pause", !.val = StateReturn(result),
                         !.failed = (result = "FAILURE"), !.state = after]
    /\ UNCHANGED << m_pc, dtor, created, gst, ref_vars, handoffs_on, extra_controls,
                    max_zoom_level_, min_zoom_level_ >>
    /\ UNCHANGED << frame_vars, consumer_vars, capture_vars >>

\* The effect of Stop() on the pipeline and on the host's last result.
StopCall(answer) ==
    LET result == gst_element_set_state(gst.pipeline, answer)
        after == IF result = "FAILURE" THEN pstate ELSE "READY"
    IN /\ result # "FAILURE" => StreamingQuiet
       /\ pstate' = after
       /\ ret' = [NoRet EXCEPT !.op = "Stop", !.val = StateReturn(result),
                      !.failed = (result = "FAILURE"), !.state = after]

Stop(answer) ==
    /\ m_pc = "idle"
    /\ StopCall(answer)
    /\ UNCHANGED << m_pc, dtor, created, gst, ref_vars, handoffs_on, extra_controls,
                    max_zoom_level_, min_zoom_level_ >>
    /\ UNCHANGED << frame_vars, consumer_vars, capture_vars >>

\* ~GstCamera(): Stop(), then DestroyPipeline (the next steps).
Destructor(answer) ==
    /\ m_pc = "idle"
    /\ ~dtor
    /\ StopCall(answer)
    /\ dtor' = TRUE
    /\ m_pc' = "destroy_state"
    /\ UNCHANGED << created, gst, ref_vars, handoffs_on, extra_controls,
                    max_zoom_level_, min_zoom_level_ >>
    /\ UNCHANGED << frame_vars, consumer_vars, capture_vars >>

(***************************************************************************)
(* GstCamera::SetZoomLevel.  A zoom argument is the float n / ZoomScale,   *)
(* written [nan |-> FALSE, v |-> n], or NaN.                               *)
(***************************************************************************)
NaNZoom == [nan |-> TRUE, v |-> 0]
ZoomArgs ==
    {NaNZoom} \cup
    { [nan |-> FALSE, v |-> n] :
        n \in (MinZoomLevel - 1) * ZoomScale .. (MaxZoomLevel + 1) * ZoomScale }

\* Line 97, zoom < min_zoom_level_, and line 102, zoom > max_zoom_level_:
\* a comparison with NaN is false.
ZoomUnderMin(zoom) == ~zoom.nan /\ zoom.v < min_zoom_level_
ZoomOverMax(zoom) == ~zoom.nan /\ zoom.v > max_zoom_level_

\* A conversion that rounds to the nearest integer.
IntegerPart_Rounds(v) == (2 * v + ZoomScale) \div (2 * ZoomScale)

\* Line 109, static_cast<int>(zoom) of a number: the fraction is dropped,
\* towards zero.
IntegerPart(v) ==
    IF v >= 0 THEN v \div ZoomScale ELSE -((-v) \div ZoomScale)

\* Line 109: the conversion of NaN is undefined; the builds in use give
\* INT_MIN (x86) or 0 (ARM).
StaticCastInt(zoom) ==
    IF zoom.nan THEN {-2147483647 - 1, 0} ELSE {IntegerPart(zoom.v)}

SetZoomLevel(zoom) ==
    /\ m_pc = "idle"
    /\ LET done(val) == [NoRet EXCEPT !.op = "SetZoomLevel", !.arg = zoom.v,
                                      !.nan = zoom.nan, !.val = val]
       IN IF ~gst.source \/ ZoomUnderMin(zoom) \/ ZoomOverMax(zoom)
          THEN /\ ret' = done(FALSE)
               /\ UNCHANGED extra_controls
          ELSE /\ ret' = done(TRUE)
               /\ \E zoom_int \in StaticCastInt(zoom) :
                     extra_controls' = << zoom_int >>
    /\ UNCHANGED << m_pc, dtor, created, gst, ref_vars, pstate, handoffs_on,
                    max_zoom_level_, min_zoom_level_ >>
    /\ UNCHANGED << frame_vars, consumer_vars, capture_vars >>

(***************************************************************************)
(* GstCamera::TakePicture and GstCamera::HandleGstMessage.                 *)
(***************************************************************************)
Callbacks == {"on_captured_1", "on_captured_2"}

\* Line 87.
TakePicture(on_notify_captured) ==
    /\ m_pc = "idle"
    /\ takes < MaxTakes
    /\ on_notify_captured_' = on_notify_captured
    /\ last_taken' = on_notify_captured
    /\ takes' = takes + 1
    /\ UNCHANGED << bus_log, captured >>
    /\ UNCHANGED << m_pc, dtor, created, gst, ref_vars, pstate, handoffs_on, ret,
                    extra_controls, max_zoom_level_, min_zoom_level_ >>
    /\ UNCHANGED << frame_vars, consumer_vars >>

\* The messages the bus can deliver: their type, the name of their
\* structure ("none": no structure) and its "filename" field.
Filenames == {"a.jpg", "b.jpg"}
Messages ==
    [type : {"ELEMENT"}, st : {"image-done", "other"}, filename : Filenames]
    \cup [type : {"ELEMENT", "WARNING", "ERROR", "EOS"}, st : {"none"},
          filename : {""}]

\* A handler that does not look at the structure's name.
IsCaptureNotification_AnyName(message, callback) ==
    /\ message.type = "ELEMENT"
    /\ message.st # "none"
    /\ callback # "empty"

\* Lines 320-326: the message makes the handler call on_notify_captured_.
IsCaptureNotification(message, callback) ==
    /\ message.type = "ELEMENT"
    /\ message.st # "none"
    /\ message.st = "image-done"
    /\ callback # "empty"

\* The bus's sync handler (installed at line 175), lines 317-362.
HandleGstMessage(message) ==
    /\ gst.bus
    /\ m_pc \in {"idle", "destroy_state", "destroy_buffer", "destroy_rest"}
    /\ Len(bus_log) < MaxMessages
    /\ captured' =
          IF IsCaptureNotification(message, on_notify_captured_)
          THEN Append(captured, [callback |-> on_notify_captured_,
                                 filename |-> message.filename])
          ELSE captured
    /\ bus_log' = Append(bus_log, [message |-> message, takes |-> takes,
                                   expect |-> last_taken])
    /\ UNCHANGED << on_notify_captured_, last_taken, takes >>
    /\ UNCHANGED << m_pc, dtor, created, gst, ref_vars, pstate, handoffs_on, ret,
                    extra_controls, max_zoom_level_, min_zoom_level_ >>
    /\ UNCHANGED << frame_vars, consumer_vars >>

(***************************************************************************)
(* GstCamera::HandoffHandler, on the library's streaming thread.           *)
(***************************************************************************)
host_vars == << m_pc, dtor, created, pstate, handoffs_on, ret, extra_controls,
                max_zoom_level_, min_zoom_level_ >>

\* The library emits "handoff" with the next frame; lines 290-298 read
\* the frame's width and height from the pad's caps.
HandoffBegin(res) ==
    /\ h_pc = "idle"
    /\ pstate = "PLAYING"
    /\ handoffs_on
    /\ nhandoff < MaxFrames
    /\ nhandoff' = nhandoff + 1
    /\ h_buf' = [id |-> nhandoff + 1, w |-> res[1], h |-> res[2]]
    /\ h_pc' = "compare"
    /\ UNCHANGED << gst, ref_vars, host_vars, width_, height_, pixels_, allocs,
                    writer, readers, notified >>
    /\ UNCHANGED << consumer_vars, capture_vars >>

\* Line 299: has the resolution changed?
ResolutionChanged(w, h) == w # width_ \/ h # height_

HandoffCompare ==
    /\ h_pc = "compare"
    /\ h_pc' = IF ResolutionChanged(h_buf.w, h_buf.h) THEN "set_width" ELSE "lock"
    /\ UNCHANGED << gst, ref_vars, host_vars, width_, height_, pixels_, allocs,
                    writer, readers, h_buf, nhandoff, notified >>
    /\ UNCHANGED << consumer_vars, capture_vars >>

\* Line 300.
HandoffSetWidth ==
    /\ h_pc = "set_width"
    /\ width_' = h_buf.w
    /\ h_pc' = "set_height"
    /\ UNCHANGED << gst, ref_vars, host_vars, height_, pixels_, allocs,
                    writer, readers, h_buf, nhandoff, notified >>
    /\ UNCHANGED << consumer_vars, capture_vars >>

\* Line 301.
HandoffSetHeight ==
    /\ h_pc = "set_height"
    /\ height_' = h_buf.h
    /\ h_pc' = "alloc"
    /\ UNCHANGED << gst, ref_vars, host_vars, width_, pixels_, allocs,
                    writer, readers, h_buf, nhandoff, notified >>
    /\ UNCHANGED << consumer_vars, capture_vars >>

\* Line 302: pixels_.reset(new uint32_t[width * height]) frees the old
\* allocation.
NewPixels(w, h) == [id |-> allocs + 1, cap |-> w * h * BytesPerPixel]

HandoffAlloc ==
    /\ h_pc = "alloc"
    /\ pixels_' = NewPixels(h_buf.w, h_buf.h)
    /\ allocs' = allocs + 1
    /\ h_pc' = "lock"
    /\ UNCHANGED << gst, ref_vars, host_vars, width_, height_,
                    writer, readers, h_buf, nhandoff, notified >>
    /\ UNCHANGED << consumer_vars, capture_vars >>

\* Line 307: std::lock_guard takes mutex_buffer_ exclusively.
HandoffLock ==
    /\ h_pc = "lock"
    /\ ~writer
    /\ readers = {}
    /\ writer' = TRUE
    /\ h_pc' = "swap"
    /\ UNCHANGED << gst, ref_vars, host_vars, width_, height_, pixels_, allocs,
                    readers, h_buf, nhandoff, notified >>
    /\ UNCHANGED << consumer_vars, capture_vars >>

\* A handoff that does not release the previous buffer.
AfterRelease_Keeps(held, old) == held

\* Lines 308-311: the buffers still referenced after the previous one is
\* released.
AfterRelease(held, old) == IF old # NullBuf THEN held \ {old.id} ELSE held

\* Lines 308-312: release the held buffer, take a reference on the new one.
HandoffSwap ==
    /\ h_pc = "swap"
    /\ buf_held' = AfterRelease(buf_held, gst.buffer) \cup {h_buf.id}
    /\ bad_unref' = (bad_unref
                     \/ (gst.buffer # NullBuf /\ gst.buffer.id \notin buf_held))
    /\ gst' = [gst EXCEPT !.buffer = h_buf]
    /\ h_pc' = "notify"
    /\ UNCHANGED << ref_pipeline, ref_bus, host_vars, width_, height_, pixels_,
                    allocs, writer, readers, h_buf, nhandoff, notified >>
    /\ UNCHANGED << consumer_vars, capture_vars >>

\* Line 313: OnNotifyFrameDecoded, called with mutex_buffer_ still held.
\* The stream handler either returns, or calls GetPreviewFrameBuffer
\* before it returns.
HandoffNotify(reenter) ==
    /\ h_pc = "notify"
    /\ notified' = notified + 1
    /\ h_pc' = IF reenter THEN "cb_lock" ELSE "unlock"
    /\ UNCHANGED << gst, ref_vars, host_vars, width_, height_, pixels_, allocs,
                    writer, readers, h_buf, nhandoff >>
    /\ UNCHANGED << consumer_vars, capture_vars >>

\* Line 121 on the streaming thread, inside the notification: lock_shared
\* on a mutex the thread holds exclusively, which std::shared_mutex leaves
\* undefined.  Either the thread blocks for good, the mutex held ...
ReentrantLockBlocks ==
    /\ h_pc = "cb_lock"
    /\ writer
    /\ h_pc' = "deadlocked"
    /\ UNCHANGED << gst, ref_vars, host_vars, width_, height_, pixels_, allocs,
                    writer, readers, h_buf, nhandoff, notified >>
    /\ UNCHANGED << consumer_vars, capture_vars >>

\* ... or lock_shared reports the deadlock (EDEADLK) by throwing out of
\* the library's callback, which ends the process.
ReentrantLockThrows ==
    /\ h_pc = "cb_lock"
    /\ writer
    /\ h_pc' = "aborted"
    /\ m_pc' = "aborted"
    /\ c_pc' = "aborted"
    /\ UNCHANGED << gst, ref_vars, dtor, created, pstate, handoffs_on, ret, extra_controls,
                    max_zoom_level_, min_zoom_level_, width_, height_, pixels_,
                    allocs, writer, readers, h_buf, nhandoff, notified >>
    /\ UNCHANGED << c_buf, c_bytes, c_dst, c_ret, c_start, capture_vars >>

\* Line 314: the lock_guard's destructor.
HandoffReturn ==
    /\ h_pc = "unlock"
    /\ writer' = FALSE
    /\ h_pc' = "idle"
    /\ UNCHANGED << gst, ref_vars, host_vars, width_, height_, pixels_, allocs,
                    readers, h_buf, nhandoff, notified >>
    /\ UNCHANGED << consumer_vars, capture_vars >>


(***************************************************************************)
(* GstCamera::GetPreviewFrameBuffer, on the consumer thread.               *)
(***************************************************************************)
\* The object exists and is visible to the other threads.
Shared ==
    \/ m_pc = "idle"
    \/ dtor /\ m_pc \in {"destroy_state", "destroy_buffer", "destroy_rest"}

others_vars == << gst, ref_vars, host_vars, frame_vars, capture_vars >>

GetBegin ==
    /\ Shared
    /\ c_pc = "idle"
    /\ c_pc' = "lock"
    /\ c_start' = notified
    /\ c_ret' = NoResult
    /\ UNCHANGED << c_buf, c_bytes, c_dst >>
    /\ UNCHANGED others_vars

\* Line 121: std::shared_lock takes mutex_buffer_ shared.
GetLock ==
    /\ Shared
    /\ c_pc = "lock"
    /\ ~writer
    /\ readers' = readers \cup {"consumer"}
    /\ c_pc' = "check"
    /\ UNCHANGED << c_buf, c_bytes, c_dst, c_ret, c_start >>
    /\ UNCHANGED << gst, ref_vars, host_vars, capture_vars >>
    /\ UNCHANGED << width_, height_, pixels_, allocs, writer, h_pc, h_buf,
                    nhandoff, notified >>

\* Lines 122-124: no buffer held, return nullptr (the lock is released).
GetNull ==
    /\ Shared
    /\ c_pc = "check"
    /\ gst.buffer = NullBuf
    /\ c_ret' = NullResult
    /\ readers' = readers \ {"consumer"}
    /\ c_pc' = "idle"
    /\ UNCHANGED << c_buf, c_bytes, c_dst, c_start >>
    /\ UNCHANGED << gst, ref_vars, host_vars, capture_vars >>
    /\ UNCHANGED << width_, height_, pixels_, allocs, writer, h_pc, h_buf,
                    nhandoff, notified >>

\* Line 122: a buffer is held.
GetCheck ==
    /\ Shared
    /\ c_pc = "check"
    /\ gst.buffer # NullBuf
    /\ c_buf' = gst.buffer
    /\ c_pc' = "size"
    /\ UNCHANGED << c_bytes, c_dst, c_ret, c_start >>
    /\ UNCHANGED others_vars

\* Line 126: pixel_bytes = width_ * height_ * 4.
PixelBytes(w, h) == w * h * BytesPerPixel

GetSize ==
    /\ Shared
    /\ c_pc = "size"
    /\ c_bytes' = PixelBytes(width_, height_)
    /\ c_pc' = "args"
    /\ UNCHANGED << c_buf, c_dst, c_ret, c_start >>
    /\ UNCHANGED others_vars

\* Line 127, the arguments: gst_.buffer (the value read at line 122, or
\* the member read again: nothing orders the two reads against a writer
\* that does not take the mutex) and pixels_.get().
GetArgs ==
    /\ Shared
    /\ c_pc = "args"
    /\ c_buf' \in {c_buf, gst.buffer}
    /\ c_dst' = pixels_.id
    /\ c_pc' = "extract"
    /\ UNCHANGED << c_bytes, c_ret, c_start >>
    /\ UNCHANGED others_vars

\* gst_buffer_extract copies min(size, the buffer's size) bytes.
Copied(buf, size) ==
    IF PixelBytes(buf.w, buf.h) < size THEN PixelBytes(buf.w, buf.h) ELSE size

\* The copy of line 127 read a buffer the adapter held throughout and
\* wrote one whole frame inside an allocation that stayed live.
ExtractIntact ==
    /\ c_buf # NullBuf
    /\ c_buf = gst.buffer
    /\ c_buf.id \in buf_held
    /\ c_dst # 0
    /\ c_dst = pixels_.id
    /\ Copied(c_buf, c_bytes) <= pixels_.cap
    /\ c_bytes = PixelBytes(c_buf.w, c_buf.h)

\* Lines 127-128: the copy ends, pixels_.get() is returned (the lock is
\* released).
GetExtract ==
    /\ Shared
    /\ c_pc = "extract"
    /\ c_ret' = IF ExtractIntact THEN FramePixels(c_buf.id) ELSE Garbage
    /\ readers' = readers \ {"consumer"}
    /\ c_pc' = "idle"
    /\ UNCHANGED << c_buf, c_bytes, c_dst, c_start >>
    /\ UNCHANGED << gst, ref_vars, host_vars, capture_vars >>
    /\ UNCHANGED << width_, height_, pixels_, allocs, writer, h_pc, h_buf,
                    nhandoff, notified >>

(***************************************************************************)
(* The adapter with its three threads.                                     *)
(***************************************************************************)
HostSteps ==
    \/ \E fail \in 0..Len(CreateSteps), preroll \in SetStateAnswers("PAUSED") :
           Construct(fail, preroll)
    \/ \E a \in SetStateAnswers("PLAYING"), w \in GetStateAnswers : Play(a, w)
    \/ \E a \in SetStateAnswers("READY") : Destructor(a)
    \/ DestroyState
    \/ DestroyBuffer
    \/ DestroyRest

StreamingSteps ==
    \/ \E res \in Resolutions : HandoffBegin(res)
    \/ HandoffCompare
    \/ HandoffSetWidth
    \/ HandoffSetHeight
    \/ HandoffAlloc
    \/ HandoffLock
    \/ HandoffSwap
    \/ \E reenter \in BOOLEAN : HandoffNotify(reenter)
    \/ ReentrantLockBlocks
    \/ ReentrantLockThrows
    \/ HandoffReturn

ConsumerSteps ==
    \/ GetBegin
    \/ GetLock
    \/ GetNull
    \/ GetCheck
    \/ GetSize
    \/ GetArgs
    \/ GetExtract

Next == HostSteps \/ StreamingSteps \/ ConsumerSteps

Spec == Init /\ [][Next]_vars


(***************************************************************************)
(* The host-facing operations, one call at a time: a call starts when no   *)
(* other call is in progress.                                              *)
(***************************************************************************)
Quiet == c_pc = "idle" /\ h_pc = "idle"

HostNext ==
    \/ \E fail \in 0..Len(CreateSteps), preroll \in SetStateAnswers("PAUSED") :
           Construct(fail, preroll)
    \/ \E a \in SetStateAnswers("PLAYING"), w \in GetStateAnswers :
           Quiet /\ Play(a, w)
    \/ \E a \in SetStateAnswers("PAUSED") : Quiet /\ Pause(a)
    \/ \E a \in SetStateAnswers("READY") : Quiet /\ Stop(a)
    \/ \E zoom \in ZoomArgs : Quiet /\ SetZoomLevel(zoom)
    \/ \E a \in SetStateAnswers("READY") : Quiet /\ Destructor(a)
    \/ DestroyState
    \/ DestroyBuffer
    \/ DestroyRest
    \/ \E res \in Resolutions : m_pc = "idle" /\ c_pc = "idle" /\ HandoffBegin(res)
    \/ HandoffCompare
    \/ HandoffSetWidth
    \/ HandoffSetHeight
    \/ HandoffAlloc
    \/ HandoffLock
    \/ HandoffSwap
    \/ \E reenter \in BOOLEAN : HandoffNotify(reenter)
    \/ ReentrantLockBlocks
    \/ ReentrantLockThrows
    \/ HandoffReturn
    \/ m_pc = "idle" /\ h_pc = "idle" /\ GetBegin
    \/ GetLock
    \/ GetNull
    \/ GetCheck
    \/ GetSize
    \/ GetArgs
    \/ GetExtract

SpecHost == Init /\ [][HostNext]_vars

(***************************************************************************)
(* The capture notification: TakePicture and the bus's messages.           *)
(***************************************************************************)
CaptureNext ==
    \/ \E fail \in 0..Len(CreateSteps), preroll \in SetStateAnswers("PAUSED") :
           Construct(fail, preroll)
    \/ \E cb \in Callbacks : TakePicture(cb)
    \/ \E message \in Messages : HandleGstMessage(message)
    \/ \E a \in SetStateAnswers("READY") : Destructor(a)
    \/ DestroyState
    \/ DestroyBuffer
    \/ DestroyRest

SpecCapture == Init /\ [][CaptureNext]_vars

\* The threads are scheduled: a thread that can take a step is not left
\* waiting for ever.
FairSpec == Spec /\ WF_vars(StreamingSteps) /\ WF_vars(ConsumerSteps)

(***************************************************************************)
(* The held frame buffer and the pixel buffer (C1, C2, C7, C9, C10).       *)
(***************************************************************************)
\* The consumer is between its read of gst_.buffer (line 122) and the end
\* of gst_buffer_extract (line 127).
ConsumerReading == c_pc \in {"size", "args", "extract"}

\* C1: while one thread reads the held buffer handle or extracts from it,
\* no other thread releases or replaces the handle: the handle the consumer
\* works on is still the adapter's, and still referenced.
C1_NoReleaseWhileReading ==
    ConsumerReading =>
        /\ c_buf # NullBuf
        /\ c_buf = gst.buffer
        /\ c_buf.id \in buf_held

\* C1, second half: every replace and release of the handle happens with
\* mutex_buffer_ held (exclusively, as a writer must).
C1_WritesUnderLock == [][gst.buffer' # gst.buffer => writer]_vars

\* C2: whenever GetPreviewFrameBuffer extracts width_ * height_ * 4 bytes
\* of a buffer into pixels_, the allocation it writes to is live and holds
\* at least that many bytes, and width_ and height_ are that buffer's
\* dimensions.
C2_PixelsSized ==
    (c_pc = "extract" /\ c_buf # NullBuf) =>
        /\ c_dst # 0
        /\ c_dst = pixels_.id
        /\ c_bytes <= pixels_.cap
        /\ c_bytes = PixelBytes(width_, height_)
        /\ width_ = c_buf.w
        /\ height_ = c_buf.h

\* C7: GetPreviewFrameBuffer returns nullptr only when no buffer is held
\* (no handoff has completed yet, or the pipeline is being destroyed), and
\* otherwise the pixels of a frame that is the k-th or a later one, where k
\* notifications had been issued when the call started.
C7_CurrentFrame ==
    (c_pc = "idle" /\ c_ret # NoResult) =>
        /\ c_ret = NullResult => (c_start = 0 \/ dtor)
        /\ c_ret # NullResult =>
              /\ c_ret.kind = "frame"
              /\ c_ret.id >= c_start
              /\ c_ret.id <= notified

\* C9: the adapter holds at most one frame buffer, one bus and one pipeline
\* reference, never releases a reference it does not hold, and holds none
\* once the destructor has completed.
C9_RefsBalanced ==
    /\ Cardinality(buf_held) <= 1
    /\ ref_pipeline <= 1
    /\ ref_bus <= 1
    /\ ~bad_unref
    /\ m_pc = "gone" => (buf_held = {} /\ ref_pipeline = 0 /\ ref_bus = 0)

\* C9's case: frames were handed off, and the destructor has completed.
C9_Witness == m_pc = "gone" /\ notified >= 2 /\ nhandoff >= 2

\* C10: every HandoffHandler invocation that has issued its notification
\* returns, also when the stream handler calls GetPreviewFrameBuffer from
\* inside the notification.
C10_HandoffReturns == (h_pc \in {"unlock", "cb_lock"}) ~> (h_pc = "idle")


(***************************************************************************)
(* The host-facing operations (C3, C4, C5, C6).                            *)
(***************************************************************************)
\* C3: Play, Pause and Stop return false whenever a library call of the
\* operation reported GST_STATE_CHANGE_FAILURE (for Play, the wait after
\* ASYNC included), and Play returns true only with the pipeline PLAYING.
C3_FailurePropagated ==
    /\ (ret.op \in {"Play", "Pause", "Stop"} /\ ret.failed) => ~ret.val
    /\ (ret.op = "Play" /\ ret.val) => ret.state = "PLAYING"

\* The constructor has returned after CreatePipeline failed.
FailedConstruction == ~created /\ (m_pc = "idle" \/ dtor)

\* C4: after a construction whose CreatePipeline failed, every handle is
\* null; Play, Pause, Stop and SetZoomLevel return false;
\* GetPreviewFrameBuffer returns nullptr; and nothing was done to a
\* pipeline: it is in no state, no zoom was set, no frame was handed off.
C4_FailedConstructionFails ==
    FailedConstruction =>
        /\ gst = NullHandles
        /\ ret.op \in {"Play", "Pause", "Stop", "SetZoomLevel"} => ~ret.val
        /\ c_ret \in {NoResult, NullResult}
        /\ pstate = "NULL"
        /\ extra_controls = << >>
        /\ nhandoff = 0

\* C4's case: CreatePipeline failed; since then GetPreviewFrameBuffer has
\* returned and SetZoomLevel, with a zoom inside the range, was the host's
\* last call.
C4_Witness ==
    /\ FailedConstruction
    /\ m_pc = "idle"
    /\ ref_pipeline = 0
    /\ c_ret = NullResult
    /\ ret.op = "SetZoomLevel"
    /\ ~ret.nan
    /\ ret.arg = ZoomScale

\* The range GetZoomMaxMinSize reports, both bounds included.
InReportedRange(nan, v) ==
    ~nan /\ GetZoomMin * ZoomScale <= v /\ v <= GetZoomMax * ZoomScale

\* C5: on a successfully constructed camera SetZoomLevel(z) returns true
\* exactly when min <= z <= max for the pair GetZoomMaxMinSize reports.
C5_ZoomRangeAgrees ==
    (created /\ ~dtor /\ ret.op = "SetZoomLevel") =>
        (ret.val <=> InReportedRange(ret.nan, ret.arg))

\* C5, second half: a call that returns false leaves the zoom control as
\* it was.
C5_RefusedLeavesZoom ==
    [][(ret'.op = "SetZoomLevel" /\ ~ret'.val)
          => extra_controls' = extra_controls]_vars

\* C6 as claimed: the zoom applied to the source's zoom-absolute control
\* equals the number z that SetZoomLevel accepted.
C6_PassThrough ==
    (ret.op = "SetZoomLevel" /\ ret.val /\ ~ret.nan) =>
        /\ Len(extra_controls) = 1
        /\ extra_controls[1] * ZoomScale = ret.arg

\* C6 as amended: for a number z that SetZoomLevel accepted, the zoom
\* applied is z without its fraction: the integer n with n <= z < n + 1.
C6_IntegerPartApplied ==
    (ret.op = "SetZoomLevel" /\ ret.val /\ ~ret.nan) =>
        /\ Len(extra_controls) = 1
        /\ extra_controls[1] * ZoomScale <= ret.arg
        /\ ret.arg < (extra_controls[1] + 1) * ZoomScale

\* C6's case: a zoom between 1 and 2 was accepted, and 1 was applied.
C6_Witness ==
    /\ ret.op = "SetZoomLevel"
    /\ ret.val
    /\ ~ret.nan
    /\ ret.arg = ZoomScale + 1
    /\ extra_controls = << 1 >>

(***************************************************************************)
(* The capture notification (C8).                                          *)
(***************************************************************************)
\* The deliveries the callback is due for: ELEMENT messages named
\* "image-done" that arrived after a TakePicture call.
Due(entry) ==
    /\ entry.message.type = "ELEMENT"
    /\ entry.message.st = "image-done"
    /\ entry.takes >= 1

Notification(entry) ==
    [callback |-> entry.expect, filename |-> entry.message.filename]

\* C8: the capture callback's invocations are, in order, one per due
\* delivery, each with that message's filename and the callback passed to
\* the most recent TakePicture; nothing else invokes it.
C8_CaptureNotifications ==
    LET due == SelectSeq(bus_log, Due)
    IN /\ Len(captured) = Len(due)
       /\ \A i \in 1..Len(due) : captured[i] = Notification(due[i])

\* C8's case: an "image-done" message before the first TakePicture was
\* ignored, a later one was notified.
C8_Witness ==
    /\ Len(bus_log) >= 2
    /\ bus_log[1].message.st = "image-done"
    /\ bus_log[1].takes = 0
    /\ bus_log[2].message.st = "image-done"
    /\ Len(captured) = 1

=============================================================================
